---- MODULE Spec2Model ----
(***************************************************************************)
(* The Philips Hue component of Home Assistant                             *)
(* (homeassistant/components/hue/__init__.py): the component set-up        *)
(* async_setup, the configuration-entry lifecycle async_setup_entry /      *)
(* async_unload_entry, and the hue_activate_scene service handler that     *)
(* fans a scene command out to every bridge and retries once.              *)
(***************************************************************************)
EXTENDS Integers, Sequences, FiniteSets, TLC

\* ------------------------------------------------------------------ bounds

\* Longest list of bridge blocks under conf[CONF_BRIDGES] that is explored.
MaxBridges == 2

\* Number of bridges on the network, each with its own host address and its
\* own configuration entry.
NumHosts == 2

\* ------------------------------------------------------- values and inputs

\* Python's None.
None == "None"

\* Host addresses (entry.data["host"], bridge_conf[CONF_HOST]).
HostNames == << "10.0.0.1", "10.0.0.2", "10.0.0.3" >>

Hosts == { HostNames[i] : i \in 1..NumHosts }

\* Configuration entries the config-entry subsystem can hold (entry_id).
EntryNames == << "e1", "e2", "e3" >>

Entries == { EntryNames[i] : i \in 1..NumHosts }

\* entry.data["host"].
EntryHost(e) == HostNames[CHOOSE i \in 1..NumHosts : EntryNames[i] = e]

DEFAULT_ALLOW_UNREACHABLE == FALSE

DEFAULT_ALLOW_HUE_GROUPS == TRUE

\* Bridge blocks as BRIDGE_CONFIG_SCHEMA delivers them: the host and the two
\* options.
BridgeConfs ==
    [host : Hosts, allow_unreachable : BOOLEAN, allow_hue_groups : BOOLEAN]

\* All sequences over S of length at most n.
SeqsUpTo(S, n) == UNION { [1..k -> S] : k \in 0..n }

\* config.get(DOMAIN): has_bridges says whether CONF_BRIDGES is in conf (it is
\* not when the hue domain is missing or has no bridges key), bridges is
\* conf[CONF_BRIDGES], the list of bridge blocks.
ConfInputs ==
    { [has_bridges |-> FALSE, bridges |-> << >>] } \cup
    { [has_bridges |-> TRUE, bridges |-> l] :
        l \in SeqsUpTo(BridgeConfs, MaxBridges) }

\* What a bridge reports in bridge.api.config after a successful bring-up.
BridgeIds == {"001788fffe23a1b2", "0017884455c6"}

MacOf(bridgeid) ==
    IF bridgeid = "001788fffe23a1b2" THEN "00:17:88:23:a1:b2"
    ELSE "00:17:88:44:55:c6"

ApiConfigs ==
    { [bridgeid |-> b, mac |-> MacOf(b), swupdate2_bridge_state |-> s] :
        b \in BridgeIds, s \in {"noupdates", "readytoinstall"} }

\* aiohue.util.normalize_bridge_id: a 16-character id carrying "fffe" in its
\* middle loses those four characters, a 12-character id is kept.
normalize_bridge_id(bridgeid) ==
    IF bridgeid = "001788fffe23a1b2" THEN "00178823a1b2" ELSE bridgeid

\* call.data of a hue_activate_scene service call.
Calls ==
    { [group_name |-> "Living room", scene_name |-> "Relax"],
      [group_name |-> "Kitchen", scene_name |-> "Energize"] }

\* Outcomes of awaiting bridge.hue_activate_scene: it returns None (the scene
\* was set), returns a non-None value (False), or raises.
BridgeOutcomes == {"None", "False", "raise"}

\* A mapping with no keys.
EmptyMap == [k \in {} |-> None]

\* d with key k set to v (d[k] = v of a Python dict).
DictSet(d, k, v) == [x \in (DOMAIN d) \cup {k} |-> IF x = k THEN v ELSE d[x]]

\* d without key k (d.pop(k) of a Python dict, for k in d).
DictPop(d, k) == [x \in (DOMAIN d) \ {k} |-> d[x]]

\* The values of a mapping or list.
Values(d) == { d[x] : x \in DOMAIN d }

\* ------------------------------------------------------------------- state

VARIABLES
    setupDone,      \* async_setup has run in this process
    registry,       \* hass.data[DOMAIN]: host -> HueBridge
    configs,        \* hass.data[DATA_CONFIGS]: host -> bridge block
    service,        \* SERVICE_HUE_SCENE is registered in hass.services
    configEntries,  \* hass.config_entries.async_entries(DOMAIN)
    uniqueId,       \* entry.unique_id of each entry
    devices,        \* records of the device registry
    flows,          \* import flows scheduled with hass.async_create_task
    resetting,      \* entries whose bridge.async_reset() is being awaited
    removals,       \* hass.services.async_remove calls of the last unload
    lastCall,       \* the lifecycle call that returned last, and its result
    pc,             \* where the hue_activate_scene handler stands
    callData,       \* call.data of the service call being handled
    passes,         \* the passes of the current dispatch, oldest first
    warnings        \* what the current dispatch logged with _LOGGER.warning

vars ==
    << setupDone, registry, configs, service, configEntries, uniqueId,
       devices, flows, resetting, removals, lastCall, pc, callData, passes,
       warnings >>

lifecycleVars ==
    << setupDone, registry, configs, service, configEntries, uniqueId,
       devices, flows, resetting, removals, lastCall >>

dispatchVars == << pc, callData, passes, warnings >>

\* A lifecycle call that has returned: its name, the value it returned and
\* whether it logged a warning.
Returned(op, ret, warned) == [op |-> op, ret |-> ret, warned |-> warned]

\* The process has started and the component is not set up yet. The entries
\* persisted by earlier runs are any subset of Entries; none has a unique_id.
Init ==
    /\ setupDone = FALSE
    /\ registry = EmptyMap
    /\ configs = EmptyMap
    /\ service = FALSE
    /\ configEntries \in SUBSET Entries
    /\ uniqueId = [e \in Entries |-> None]
    /\ devices = {}
    /\ flows = << >>
    /\ resetting = {}
    /\ removals = 0
    /\ lastCall = Returned("none", FALSE, FALSE)
    /\ pc = "idle"
    /\ callData = [group_name |-> None, scene_name |-> None]
    /\ passes = << >>
    /\ warnings = << >>

\* ---------------------------------------------------------------- async_setup

\* configured_hosts of async_setup: the hosts of the existing entries.
configured_hosts == { EntryHost(e) : e \in configEntries }

\* Faulty variant of StoredConfigs: the block of a host that has an entry is
\* skipped before it is stored (the continue placed ahead of the store).
StoredConfigs_new_hosts_only(bridges, n) ==
    LET new == { i \in 1..n : bridges[i].host \notin configured_hosts } IN
    [h \in { bridges[i].host : i \in new } |->
        LET last == CHOOSE i \in new :
                        /\ bridges[i].host = h
                        /\ \A j \in new : bridges[j].host = h => j <= i
        IN bridges[last]]

\* hass.data[DATA_CONFIGS] after the loop over the first n blocks of bridges:
\* every block is stored under its host, a later block replacing an earlier.
RECURSIVE StoredConfigs(_, _)
StoredConfigs(bridges, n) ==
    IF n = 0 THEN EmptyMap
    ELSE DictSet(StoredConfigs(bridges, n - 1), bridges[n].host, bridges[n])

\* The import flows the loop schedules over the first n blocks of bridges, in
\* order: one for each block whose host is not in configured_hosts.
RECURSIVE ScheduledFlows(_, _)
ScheduledFlows(bridges, n) ==
    IF n = 0 THEN << >>
    ELSE IF bridges[n].host \in configured_hosts
         THEN ScheduledFlows(bridges, n - 1)
         ELSE Append(ScheduledFlows(bridges, n - 1), bridges[n].host)

async_setup(conf) ==
    /\ ~setupDone
    /\ setupDone' = TRUE
    /\ registry' = EmptyMap
    /\ service' = TRUE
    /\ IF ~conf.has_bridges
       THEN /\ configs' = EmptyMap
            /\ flows' = flows
       ELSE /\ configs' = StoredConfigs(conf.bridges, Len(conf.bridges))
            /\ flows' = flows \o ScheduledFlows(conf.bridges, Len(conf.bridges))
    /\ lastCall' = Returned("async_setup", TRUE, FALSE)
    /\ UNCHANGED << configEntries, uniqueId, devices, resetting, removals >>
    /\ UNCHANGED dispatchVars

\* ---------------------------------------------------------- async_setup_entry

\* The HueBridge that async_setup_entry constructs for an entry: the options
\* come from the block stored for the host, or are the defaults without one.
HueBridge(entry) ==
    LET host == EntryHost(entry) IN
    IF host \notin DOMAIN configs
    THEN [entry |-> entry,
          allow_unreachable |-> DEFAULT_ALLOW_UNREACHABLE,
          allow_groups |-> DEFAULT_ALLOW_HUE_GROUPS]
    ELSE [entry |-> entry,
          allow_unreachable |-> configs[host].allow_unreachable,
          allow_groups |-> configs[host].allow_hue_groups]

\* device_registry.async_get_or_create: the device that carries one of the
\* identifiers or connections gains the entry; without such a device a new
\* one is created for the entry.
async_get_or_create(devs, entry, api) ==
    LET found == { d \in devs : d.bridgeid = api.bridgeid \/ d.mac = api.mac } IN
    IF found = {}
    THEN devs \cup { [config_entries |-> {entry},
                      mac |-> api.mac,
                      bridgeid |-> api.bridgeid] }
    ELSE LET d == CHOOSE x \in found : TRUE IN
         (devs \ {d}) \cup
            { [d EXCEPT !.config_entries = @ \cup {entry}] }

\* Faulty variant of UniqueIdAfter: the unique id follows the bridge id on
\* every successful setup.
UniqueIdAfter_overwrites(entry, api) ==
    [uniqueId EXCEPT ![entry] = normalize_bridge_id(api.bridgeid)]

\* entry.unique_id after lines 163-166: set from the bridge id only when the
\* entry has none.
UniqueIdAfter(entry, api) ==
    IF uniqueId[entry] = None
    THEN [uniqueId EXCEPT ![entry] = normalize_bridge_id(api.bridgeid)]
    ELSE uniqueId

\* Faulty variant of BridgeRegistered: the bridge is stored before its
\* bring-up is awaited.
BridgeRegistered_before_setup(entry, ok) ==
    DictSet(registry, EntryHost(entry), HueBridge(entry))

\* hass.data[DOMAIN] after lines 156-159: the bridge is stored under the host
\* only when bridge.async_setup() succeeded.
BridgeRegistered(entry, ok) ==
    IF ~ok THEN registry
    ELSE DictSet(registry, EntryHost(entry), HueBridge(entry))

\* Faulty variant of SetupEntryReturns: a pending firmware update makes the
\* set-up fail.
SetupEntryReturns_update_fails(ok, api) ==
    ok /\ api.swupdate2_bridge_state # "readytoinstall"

\* What async_setup_entry returns (lines 157 and 183).
SetupEntryReturns(ok, api) == ok

\* async_setup_entry(hass, entry), where bridge.async_setup() returns ok and,
\* when it does, bridge.api.config is api. The config-entry subsystem sets an
\* entry up only while no unload of it is running.
async_setup_entry(entry, ok, api) ==
    /\ setupDone
    /\ entry \in configEntries
    /\ entry \notin resetting
    /\ registry' = BridgeRegistered(entry, ok)
    /\ IF ~ok
       THEN /\ lastCall' =
                 Returned("async_setup_entry", SetupEntryReturns(ok, api),
                          FALSE)
            /\ UNCHANGED << uniqueId, devices >>
       ELSE /\ uniqueId' = UniqueIdAfter(entry, api)
            /\ devices' = async_get_or_create(devices, entry, api)
            /\ lastCall' =
                 Returned("async_setup_entry", SetupEntryReturns(ok, api),
                          api.swupdate2_bridge_state = "readytoinstall")
    /\ UNCHANGED << setupDone, configs, service, configEntries, flows,
                    resetting, removals >>
    /\ UNCHANGED dispatchVars

\* --------------------------------------------------------- async_unload_entry

\* Faulty variant of BridgePopped: every bridge is dropped.
BridgePopped_all(entry) == EmptyMap

\* Faulty variant of BridgePopped: the bridge is looked up and left in place
\* (dict.get in place of dict.pop).
BridgePopped_kept(entry) == registry

\* hass.data[DOMAIN] after line 188.
BridgePopped(entry) == DictPop(registry, EntryHost(entry))

\* async_unload_entry(hass, entry) up to its await: the bridge is popped from
\* hass.data[DOMAIN], the service is removed and bridge.async_reset() starts.
\* The config-entry subsystem unloads only an entry it has set up, so the
\* host is in hass.data[DOMAIN] (dict.pop would raise KeyError otherwise).
async_unload_entry(entry) ==
    /\ setupDone
    /\ EntryHost(entry) \in DOMAIN registry
    /\ registry[EntryHost(entry)].entry = entry
    /\ registry' = BridgePopped(entry)
    /\ service' = FALSE
    /\ removals' = 1
    /\ resetting' = resetting \cup {entry}
    /\ UNCHANGED << setupDone, configs, configEntries, uniqueId, devices,
                    flows, lastCall >>
    /\ UNCHANGED dispatchVars

\* Faulty variant of async_unload_entry_return: a teardown that fails puts the
\* bridge back into hass.data[DOMAIN].
async_unload_entry_return_restores(entry, ok) ==
    /\ entry \in resetting
    /\ resetting' = resetting \ {entry}
    /\ lastCall' = Returned("async_unload_entry", ok, FALSE)
    /\ registry' =
         IF ok THEN registry
         ELSE DictSet(registry, EntryHost(entry), HueBridge(entry))
    /\ UNCHANGED << setupDone, configs, service, configEntries, uniqueId,
                    devices, flows, removals >>
    /\ UNCHANGED dispatchVars

\* bridge.async_reset() completes with ok and async_unload_entry returns it.
async_unload_entry_return(entry, ok) ==
    /\ entry \in resetting
    /\ resetting' = resetting \ {entry}
    /\ lastCall' = Returned("async_unload_entry", ok, FALSE)
    /\ UNCHANGED << setupDone, registry, configs, service, configEntries,
                    uniqueId, devices, flows, removals >>
    /\ UNCHANGED dispatchVars

\* --------------------------------------------------------- hue_activate_scene

\* Faulty variant of NewPass: the retry calls the bridges of the first pass
\* again (the task list is built once and reused).
NewPass_first_pass_bridges(skip_reload) ==
    [skip_reload |-> skip_reload,
     updated |-> skip_reload,
     hide_warnings |-> skip_reload,
     results |->
        [h \in (IF skip_reload \/ passes = << >>
                THEN DOMAIN registry
                ELSE DOMAIN passes[1].results) |-> "pending"]]

\* Faulty variant of NewPass: the bridges are always called with their
\* warnings hidden.
NewPass_hide_always(skip_reload) ==
    [skip_reload |-> skip_reload,
     updated |-> skip_reload,
     hide_warnings |-> TRUE,
     results |-> [h \in DOMAIN registry |-> "pending"]]

\* One pass of hue_activate_scene(call, skip_reload): the keyword arguments of
\* every bridge.hue_activate_scene call of the pass, and the tasks of the
\* pass, one for each bridge in hass.data[DOMAIN] when the pass starts.
NewPass(skip_reload) ==
    [skip_reload |-> skip_reload,
     updated |-> skip_reload,
     hide_warnings |-> skip_reload,
     results |-> [h \in DOMAIN registry |-> "pending"]]

\* The pass that is running: the innermost hue_activate_scene invocation.
CurrentPass == passes[Len(passes)]

\* Faulty variant of GatherDone: the wait ends with the first task that has
\* its result (asyncio.wait with FIRST_COMPLETED in place of gather).
GatherDone_first_completed(results) ==
    \E h \in DOMAIN results : results[h] # "pending"

\* Faulty variant of GatherDone: the wait ends only when every task has
\* succeeded.
GatherDone_waits_for_success(results) == Values(results) \subseteq {"None"}

\* asyncio.gather(*tasks) returns once every task has its result.
GatherDone(results) == "pending" \notin Values(results)

\* asyncio.gather(*tasks) without return_exceptions raises as soon as one of
\* its tasks has raised.
GatherRaises(results) == "raise" \in Values(results)

\* Faulty variant of NoneNotIn: the retry is decided by any failure rather
\* than by the absence of a success.
NoneNotIn_any_failure(results) == "False" \in Values(results)

\* Faulty variant of NoneNotIn: one result other than None is enough
\* (any in place of all).
NoneNotIn_not_all_none(results) ==
    \E h \in DOMAIN results : results[h] # "None"

\* Faulty variant of NoneNotIn: an empty result list counts as accepted.
NoneNotIn_nonempty(results) ==
    DOMAIN results # {} /\ "None" \notin Values(results)

\* Line 84: None not in results.
NoneNotIn(results) == "None" \notin Values(results)

\* Line 86: the skip_reload argument of the recursive call.
RetrySkipReload == FALSE

\* Faulty variant of Warning: the two format arguments are swapped.
Warning_swapped(data) == [scene |-> data.group_name, group |-> data.scene_name]

\* Lines 87-91: the warning names the scene and the group.
Warning(data) == [scene |-> data.scene_name, group |-> data.group_name]

\* Where the handler stands after hue_activate_scene(call, skip_reload) is
\* entered with the passes ps behind it (Enter), and after asyncio.gather has
\* returned the results of the last pass of ps (Decide, lines 82-91): with no
\* None among the results the first pass calls hue_activate_scene again with
\* skip_reload=False and the retry pass logs the warning. A pass without
\* tasks does not suspend: asyncio.gather() of nothing is already done.
RECURSIVE Enter(_, _, _, _), Decide(_, _, _)
Enter(ps, ws, data, skip_reload) ==
    LET ps1 == Append(ps, NewPass(skip_reload)) IN
    IF DOMAIN ps1[Len(ps1)].results = {}
    THEN Decide(ps1, ws, data)
    ELSE [pc |-> "gather", passes |-> ps1, warnings |-> ws]

Decide(ps, ws, data) ==
    IF NoneNotIn(ps[Len(ps)].results)
    THEN IF ps[Len(ps)].skip_reload
         THEN Enter(ps, ws, data, RetrySkipReload)
         ELSE [pc |-> "returned", passes |-> ps,
               warnings |-> Append(ws, Warning(data))]
    ELSE [pc |-> "returned", passes |-> ps, warnings |-> ws]

\* The service call arrives at the registered handler, which runs from line
\* 66 to the first await that suspends it.
hue_activate_scene(call) ==
    /\ service
    /\ pc \in {"idle", "returned", "raised"}
    /\ callData' = call
    /\ LET next == Enter(<< >>, << >>, call, TRUE) IN
        /\ pc' = next.pc
        /\ passes' = next.passes
        /\ warnings' = next.warnings
    /\ UNCHANGED lifecycleVars

\* Faulty variant of bridge_hue_activate_scene: a bridge whose call did not
\* succeed is dropped from hass.data[DOMAIN].
bridge_hue_activate_scene_drops_bridge(host, outcome) ==
    /\ pc \in {"gather", "raised"}
    /\ host \in DOMAIN CurrentPass.results
    /\ CurrentPass.results[host] = "pending"
    /\ passes' = [passes EXCEPT ![Len(passes)].results[host] = outcome]
    /\ registry' =
         IF outcome # "None" /\ host \in DOMAIN registry
         THEN DictPop(registry, host) ELSE registry
    /\ UNCHANGED << pc, callData, warnings >>
    /\ UNCHANGED << setupDone, configs, service, configEntries, uniqueId,
                    devices, flows, resetting, removals, lastCall >>

\* One bridge.hue_activate_scene task of the running pass ends with outcome.
\* The tasks of a pass whose gather has raised keep running.
bridge_hue_activate_scene(host, outcome) ==
    /\ pc \in {"gather", "raised"}
    /\ host \in DOMAIN CurrentPass.results
    /\ CurrentPass.results[host] = "pending"
    /\ passes' = [passes EXCEPT ![Len(passes)].results[host] = outcome]
    /\ UNCHANGED << pc, callData, warnings >>
    /\ UNCHANGED lifecycleVars

\* asyncio.gather returns the results of the running pass and the handler
\* runs on from line 82.
gather_returns ==
    /\ pc = "gather"
    /\ GatherDone(CurrentPass.results)
    /\ ~GatherRaises(CurrentPass.results)
    /\ LET next == Decide(passes, warnings, callData) IN
        /\ pc' = next.pc
        /\ passes' = next.passes
        /\ warnings' = next.warnings
    /\ UNCHANGED callData
    /\ UNCHANGED lifecycleVars

\* asyncio.gather raises the exception of a task; nothing in
\* hue_activate_scene catches it, so it leaves the handler.
gather_raises ==
    /\ pc = "gather"
    /\ GatherRaises(CurrentPass.results)
    /\ pc' = "raised"
    /\ UNCHANGED << callData, passes, warnings >>
    /\ UNCHANGED lifecycleVars

\* ----------------------------------------------------------- specifications

\* The static configurations that the specifications of the running
\* component draw from: one without bridges and one with a single block
\* whose options are not the defaults.
SampleConfs ==
    { c \in ConfInputs :
        \/ ~c.has_bridges
        \/ c.bridges = << [host |-> HostNames[1], allow_unreachable |-> TRUE,
                           allow_hue_groups |-> FALSE] >> }

\* The bridge report that the specification of the whole component draws
\* from: one bridge id, no pending firmware update.
SampleApis ==
    { a \in ApiConfigs :
        a.bridgeid = "001788fffe23a1b2" /\ a.swupdate2_bridge_state = "noupdates" }

Setup(confs) == \E conf \in confs : async_setup(conf)

SetupEntry(apis) ==
    \E entry \in Entries, ok \in BOOLEAN, api \in apis :
        async_setup_entry(entry, ok, api)

UnloadEntry == \E entry \in Entries : async_unload_entry(entry)

UnloadEntryReturn ==
    \E entry \in Entries, ok \in BOOLEAN : async_unload_entry_return(entry, ok)

ServiceCall == \E call \in Calls : hue_activate_scene(call)

BridgeCallEnds ==
    \E host \in Hosts, outcome \in BridgeOutcomes :
        bridge_hue_activate_scene(host, outcome)

\* The whole component: the lifecycle calls and the scene dispatch.
Next ==
    \/ Setup(SampleConfs)
    \/ SetupEntry(SampleApis)
    \/ UnloadEntry
    \/ UnloadEntryReturn
    \/ ServiceCall
    \/ BridgeCallEnds
    \/ gather_returns
    \/ gather_raises

Spec == Init /\ [][Next]_vars

\* The scene dispatch beside the lifecycle calls that succeed. A lifecycle
\* call that fails changes nothing that hue_activate_scene reads: a failed
\* async_setup_entry stores no bridge and a failed teardown only changes what
\* async_unload_entry returns.
NextFair ==
    \/ Setup(SampleConfs)
    \/ \E entry \in Entries, api \in SampleApis :
            async_setup_entry(entry, TRUE, api)
    \/ UnloadEntry
    \/ \E entry \in Entries : async_unload_entry_return(entry, TRUE)
    \/ ServiceCall
    \/ BridgeCallEnds
    \/ gather_returns
    \/ gather_raises

\* The dispatch where every bridge call that was started ends and the event
\* loop resumes the handler once its gather is done: the await of line 80
\* sets no timeout, so the handler runs on only under this condition.
SpecFair ==
    /\ Init
    /\ [][NextFair]_vars
    /\ WF_vars(BridgeCallEnds)
    /\ WF_vars(gather_returns)
    /\ WF_vars(gather_raises)

\* The lifecycle calls alone, over every bridge report.
NextLifecycle ==
    \/ Setup(SampleConfs)
    \/ SetupEntry(ApiConfigs)
    \/ UnloadEntry
    \/ UnloadEntryReturn

SpecLifecycle == Init /\ [][NextLifecycle]_vars

\* The set-up of the component alone, over every static configuration.
NextSetup == Setup(ConfInputs)

SpecSetup == Init /\ [][NextSetup]_vars

\* -------------------------------------------------------- the scene dispatch

\* The results of a pass.
ResultsOf(i) == Values(passes[i].results)

\* Every call of pass i has returned a non-None value.
AllNonNull(i) == \A h \in DOMAIN passes[i].results : passes[i].results[h] = "False"

\* C1: when some bridge's first-pass call has returned None, the dispatch has
\* exactly one pass: no retry pass exists, so no bridge gets a retry call, and
\* nothing is logged.
C1_SuccessEndsDispatch ==
    (Len(passes) >= 1 /\ "None" \in ResultsOf(1))
        => (Len(passes) = 1 /\ warnings = << >>)

\* C1 case: two bridges, one call returned None and the other did not, and
\* the handler has returned.
C1_Witness ==
    /\ pc = "returned"
    /\ Len(passes) = 1
    /\ "None" \in ResultsOf(1)
    /\ "False" \in ResultsOf(1)

\* C2: a dispatch never has more than two passes; when it has returned and
\* every first-pass call and every retry-pass call returned non-None, it has
\* exactly two passes and logged exactly one warning, which names the scene
\* and the group of the call.
C2_AllFailRetriesOnce ==
    /\ Len(passes) <= 2
    /\ (/\ pc = "returned"
        /\ AllNonNull(1)
        /\ (Len(passes) >= 2 => AllNonNull(2)))
        => /\ Len(passes) = 2
           /\ warnings = << [scene |-> callData.scene_name,
                             group |-> callData.group_name] >>

\* C2 case: both bridges are called in both passes, all four calls returned
\* non-None, and the handler has returned.
C2_Witness ==
    /\ pc = "returned"
    /\ Len(passes) = 2
    /\ DOMAIN passes[1].results = Hosts
    /\ DOMAIN passes[2].results = Hosts
    /\ AllNonNull(1)
    /\ AllNonNull(2)
    /\ Len(warnings) = 1

\* C3: no exception leaves the fan-out: a bridge call that fails is a result
\* among the others, so the handler is never left by an exception.
C3_NoExceptionEscapes == pc # "raised"

\* C4: a dispatch that finds no bridge in either pass has returned with
\* exactly two passes, none of which made a call, and exactly one warning; it
\* is never left by an exception.
C4_NoBridges ==
    (/\ Len(passes) >= 1
     /\ \A i \in 1..Len(passes) : DOMAIN passes[i].results = {})
        => /\ pc = "returned"
           /\ Len(passes) = 2
           /\ warnings = << [scene |-> callData.scene_name,
                             group |-> callData.group_name] >>

\* C4 case: a service call was handled while hass.data[DOMAIN] was empty.
C4_Witness ==
    /\ Len(passes) = 2
    /\ DOMAIN passes[1].results = {}
    /\ DOMAIN passes[2].results = {}
    /\ DOMAIN registry = {}
    /\ pc = "returned"

\* ------------------------------------------------------ the entry lifecycle

\* A step in which async_setup_entry(e, ok, api) runs, for some api.
SetupEntryStep(e, ok) == \E api \in ApiConfigs : async_setup_entry(e, ok, api)

\* C5: a set-up whose bring-up fails returns False and leaves the registry,
\* the unique_id of every entry and the device registry as they were.
C5_FailedSetupChangesNothing ==
    [][\A e \in Entries :
        SetupEntryStep(e, FALSE) =>
            /\ lastCall'.op = "async_setup_entry"
            /\ lastCall'.ret = FALSE
            /\ registry' = registry
            /\ uniqueId' = uniqueId
            /\ devices' = devices]_vars

\* C5 case: a set-up has just failed while one bridge is registered, and the
\* other hosts have no bridge.
C5_Witness ==
    /\ lastCall.op = "async_setup_entry"
    /\ lastCall.ret = FALSE
    /\ Cardinality(DOMAIN registry) = 1
    /\ resetting = {}
    /\ removals = 0

\* C6: a step in which the unload of entry e starts removes the bridge under
\* e's host, leaves the bridges under the other hosts as they were, and calls
\* hass.services.async_remove once, after which the service is not registered.
C6_UnloadRemovesOwnBridge ==
    [][\A e \in Entries :
        (e \notin resetting /\ e \in resetting') =>
            /\ EntryHost(e) \in DOMAIN registry
            /\ DOMAIN registry' = DOMAIN registry \ {EntryHost(e)}
            /\ \A h \in DOMAIN registry' : registry'[h] = registry[h]
            /\ removals' = 1
            /\ service' = FALSE]_vars

\* C6 case: one of two bridges has been unloaded and the other is still in
\* hass.data[DOMAIN].
C6_Witness ==
    /\ resetting # {}
    /\ DOMAIN registry # {}
    /\ removals = 1
    /\ ~service

\* How often host h is among the scheduled import flows.
FlowsFor(h) == Cardinality({ i \in 1..Len(flows) : flows[i] = h })

\* C7: after async_setup, exactly one import flow is scheduled for every
\* configured host without an entry, and none for any other host.
C7_OneFlowPerNewHost ==
    setupDone =>
        \A h \in Hosts :
            FlowsFor(h) =
                IF h \in DOMAIN configs /\ h \notin configured_hosts
                THEN 1 ELSE 0

\* C8: a set-up whose bring-up succeeds returns True, whatever the firmware
\* update state, stores the entry's bridge under the entry's host, and leaves
\* exactly one device of that entry with the reported MAC and bridge id.
C8_SuccessfulSetup ==
    [][\A e \in Entries, api \in ApiConfigs :
        async_setup_entry(e, TRUE, api) =>
            /\ lastCall'.op = "async_setup_entry"
            /\ lastCall'.ret = TRUE
            /\ EntryHost(e) \in DOMAIN registry'
            /\ registry'[EntryHost(e)].entry = e
            /\ Cardinality({ d \in devices' :
                    /\ e \in d.config_entries
                    /\ d.mac = api.mac
                    /\ d.bridgeid = api.bridgeid }) = 1]_vars

\* C8 case: a set-up has succeeded for a bridge with a pending firmware
\* update, the warning was logged, and the device registry holds its device.
C8_Witness ==
    /\ lastCall.op = "async_setup_entry"
    /\ lastCall.ret = TRUE
    /\ lastCall.warned
    /\ \E e \in Entries :
        /\ EntryHost(e) \in DOMAIN registry
        /\ registry[EntryHost(e)].entry = e
        /\ \E d \in devices : e \in d.config_entries

\* ------------------------------------------------------- frame and ordering

\* A step of one of the three lifecycle calls that write the two mappings:
\* async_setup runs once, a successful async_setup_entry returns True, and
\* async_unload_entry starts the reset of its bridge.
LifecycleStep ==
    \/ ~setupDone /\ setupDone'
    \/ lastCall'.op = "async_setup_entry" /\ lastCall'.ret
    \/ resetting' # resetting

\* C9: hass.data[DOMAIN] and hass.data[DATA_CONFIGS] change only in steps of
\* async_setup, async_setup_entry and async_unload_entry; every step of the
\* scene dispatch, in either pass and whatever the bridges return, leaves
\* both as they were.
C9_DispatchReadsOnly ==
    [][/\ (registry' # registry \/ configs' # configs) => LifecycleStep
       /\ (pc' # pc \/ passes' # passes \/ warnings' # warnings
              \/ callData' # callData)
            => (registry' = registry /\ configs' = configs)]_vars

\* C9 case: a dispatch has run both passes against a registry with a bridge
\* and static configuration is stored.
C9_Witness ==
    /\ Len(passes) = 2
    /\ pc = "returned"
    /\ DOMAIN registry # {}
    /\ DOMAIN configs # {}

\* C10: while a first-pass call is outstanding there is no retry pass and no
\* warning, and the handler has decided a pass only when every call of that
\* pass has ended.
C10_DecisionAfterJoin ==
    /\ (Len(passes) >= 2 \/ warnings # << >>) => "pending" \notin ResultsOf(1)
    /\ warnings # << >> => \A i \in 1..Len(passes) : "pending" \notin ResultsOf(i)
    /\ pc = "returned" => \A i \in 1..Len(passes) : "pending" \notin ResultsOf(i)

\* C10 case: both bridges were called in the first pass, the retry pass is
\* running and one of its calls is still outstanding.
C10_Witness ==
    /\ Len(passes) = 2
    /\ DOMAIN passes[1].results = Hosts
    /\ "pending" \in ResultsOf(2)
    /\ "False" \in ResultsOf(2)

\* ----------------------------------------------------- the modes of a pass

\* C11: every call of the first pass is made with updated=True (no forced
\* reload of the bridge's groups and scenes) and hide_warnings=True, every
\* call of the retry pass with updated=False and hide_warnings=False; the
\* calls of one pass share their arguments.
C11_PassModes ==
    \A i \in 1..Len(passes) :
        IF i = 1
        THEN passes[i].updated /\ passes[i].hide_warnings
        ELSE ~passes[i].updated /\ ~passes[i].hide_warnings

\* C11 case: both passes have called both bridges.
C11_Witness ==
    /\ Len(passes) = 2
    /\ DOMAIN passes[1].results = Hosts
    /\ DOMAIN passes[2].results = Hosts
    /\ pc = "gather"

\* ------------------------------------------------- registrations and hosts

\* C12: hass.data[DOMAIN] holds at most one bridge for a host, the one of an
\* entry of that host; a host gains its bridge only in a step of a successful
\* async_setup_entry for that host, has none once async_unload_entry has run
\* for it, and has none when async_setup has run.
C12_RegisteredIffSetUp ==
    [][/\ DOMAIN registry' \subseteq Hosts
       /\ \A h \in DOMAIN registry' : EntryHost(registry'[h].entry) = h
       /\ \A h \in Hosts :
            (h \notin DOMAIN registry /\ h \in DOMAIN registry') =>
                \E e \in Entries, api \in ApiConfigs :
                    EntryHost(e) = h /\ async_setup_entry(e, TRUE, api)
       /\ \A e \in Entries :
            (e \notin resetting /\ e \in resetting') =>
                EntryHost(e) \notin DOMAIN registry'
       /\ (~setupDone /\ setupDone') => DOMAIN registry' = {}]_vars

\* C12 case: one entry was set up and unloaded and has no bridge, another
\* entry is set up and has its bridge.
C12_Witness ==
    \E e1, e2 \in Entries :
        /\ EntryHost(e1) \in DOMAIN registry
        /\ uniqueId[e2] # None
        /\ EntryHost(e2) \notin DOMAIN registry
        /\ e2 \notin resetting
        /\ lastCall.op = "async_unload_entry"

\* ----------------------------------------------------- the entry's unique id

\* C13: entry.unique_id is set once: a successful async_setup_entry sets it
\* to the normalized bridge id when the entry has none, nothing else sets it,
\* and a unique id that is set is never changed, whatever bridge id a later
\* async_setup_entry meets and whether it succeeds or fails.
C13_UniqueIdSetOnce ==
    [][\A e \in Entries :
         /\ uniqueId[e] # None => uniqueId'[e] = uniqueId[e]
         /\ (uniqueId[e] = None /\ uniqueId'[e] # None) =>
                \E api \in ApiConfigs :
                    /\ async_setup_entry(e, TRUE, api)
                    /\ uniqueId'[e] = normalize_bridge_id(api.bridgeid)
         /\ \A api \in ApiConfigs :
                /\ (async_setup_entry(e, TRUE, api) /\ uniqueId[e] = None) =>
                       uniqueId'[e] = normalize_bridge_id(api.bridgeid)
                /\ async_setup_entry(e, FALSE, api) => uniqueId' = uniqueId]_vars

\* C13 case: an entry was set up against a bridge whose id differs from the
\* one its unique id came from, and kept its unique id.
C13_Witness ==
    \E e \in Entries, d \in devices :
        /\ e \in d.config_entries
        /\ uniqueId[e] # None
        /\ uniqueId[e] # normalize_bridge_id(d.bridgeid)
        /\ lastCall.op = "async_setup_entry"
        /\ lastCall.ret

\* --------------------------------------------------- the bridges of a pass

\* C14: a pass that starts has exactly one call, not yet ended, for every
\* bridge that hass.data[DOMAIN] holds at that moment and for no other: the
\* passes started by the service call and the retry started when gather
\* returns each read hass.data[DOMAIN] as it is then. No other step adds a
\* pass or a call to a pass, and a call that has ended keeps its result.
C14_PassCallsCurrentBridges ==
    [][/\ ServiceCall =>
            \A i \in 1..Len(passes') :
                /\ DOMAIN passes'[i].results = DOMAIN registry
                /\ \A h \in DOMAIN registry : passes'[i].results[h] = "pending"
       /\ gather_returns =>
            /\ Len(passes') \in {Len(passes), Len(passes) + 1}
            /\ \A i \in 1..Len(passes) : passes'[i] = passes[i]
            /\ \A i \in (Len(passes) + 1)..Len(passes') :
                /\ DOMAIN passes'[i].results = DOMAIN registry
                /\ \A h \in DOMAIN registry : passes'[i].results[h] = "pending"
       /\ (~ServiceCall /\ ~gather_returns) =>
            /\ Len(passes') = Len(passes)
            /\ \A i \in 1..Len(passes) :
                /\ DOMAIN passes'[i].results = DOMAIN passes[i].results
                /\ \A h \in DOMAIN passes[i].results :
                      passes[i].results[h] # "pending" =>
                          passes'[i].results[h] = passes[i].results[h]]_vars

\* C14 case: between the first pass and the retry one bridge left
\* hass.data[DOMAIN] and another one joined it; the retry called the one that
\* joined and not the one that left.
C14_Witness ==
    /\ Len(passes) = 2
    /\ \E h1, h2 \in Hosts :
        /\ h1 \in DOMAIN passes[1].results
        /\ h1 \notin DOMAIN passes[2].results
        /\ h2 \notin DOMAIN passes[1].results
        /\ h2 \in DOMAIN passes[2].results
        /\ passes[2].results[h2] # "pending"

\* ------------------------------------------------- the rule of the retry pass

\* C15: the retry pass is decided by the rule of the first pass. A dispatch
\* that has returned has logged its one warning exactly when it has two
\* passes and every call of both returned non-None; a dispatch that has
\* not returned has logged nothing. So when every first-pass call returned
\* non-None and some retry call returned None, the dispatch has returned
\* after its second pass without a warning; there is never a third pass.
C15_RetryDecidedAlike ==
    /\ Len(passes) <= 2
    /\ Len(warnings) <= 1
    /\ pc # "returned" => warnings = << >>
    /\ pc = "returned" =>
          (warnings # << >>
              <=> (Len(passes) = 2 /\ AllNonNull(1) /\ AllNonNull(2)))
    /\ (/\ Len(passes) = 2
        /\ pc \in {"returned", "gather"}
        /\ GatherDone(passes[2].results)
        /\ "None" \in ResultsOf(2))
        => (AllNonNull(1) /\ warnings = << >>)

\* C15 case: every first-pass call returned non-None, the retry called two
\* bridges of which one returned None and the other did not, and the handler
\* has returned.
C15_Witness ==
    /\ pc = "returned"
    /\ Len(passes) = 2
    /\ AllNonNull(1)
    /\ "None" \in ResultsOf(2)
    /\ "False" \in ResultsOf(2)
    /\ warnings = << >>

\* ------------------------------------------------- the end of a dispatch

\* A call of the running pass has not ended.
CallPending == pc = "gather" /\ "pending" \in ResultsOf(Len(passes))

\* C16: when every bridge call that was started ends, a dispatch that awaits
\* its gather is eventually left, and it never has more than two passes.
\* While a call of the running pass has not ended, the handler does not get
\* past line 80: it starts no pass and logs nothing, whatever else happens
\* and however long it lasts; it is left only by the exception of a call.
C16_EndsWhenCallsEnd ==
    /\ (pc = "gather") ~> (pc \in {"returned", "raised"})
    /\ [](Len(passes) <= 2)
    /\ [][CallPending =>
            /\ pc' \in {"gather", "raised"}
            /\ pc' = "raised" => GatherRaises(CurrentPass.results)
            /\ Len(passes') = Len(passes)
            /\ warnings' = warnings]_vars

\* C16 case: a dispatch has returned after two passes over two bridges, all
\* of whose calls have ended, the retry calls with None.
C16_Witness ==
    /\ pc = "returned"
    /\ Len(passes) = 2
    /\ DOMAIN passes[1].results = Hosts
    /\ DOMAIN passes[2].results = Hosts
    /\ ResultsOf(2) = {"None"}

\* ------------------------------------------------------- the component set-up

\* The hosts of the bridge blocks of a static configuration.
ConfiguredHosts(conf) ==
    IF conf.has_bridges
    THEN { conf.bridges[i].host : i \in 1..Len(conf.bridges) }
    ELSE {}

\* C17: async_setup returns True for every static configuration and leaves
\* hass.data[DOMAIN] empty, the hue_activate_scene service registered and
\* hass.data[DATA_CONFIGS] holding, for every host with a bridge block, a
\* block of that host, and nothing for any other host: also for the hosts
\* that have an entry, for which no import flow is scheduled. Without a
\* bridge block hass.data[DATA_CONFIGS] is empty and no flow is scheduled.
C17_SetupAlwaysSucceeds ==
    [][\A conf \in ConfInputs :
        async_setup(conf) =>
            /\ lastCall' = Returned("async_setup", TRUE, FALSE)
            /\ registry' = EmptyMap
            /\ service'
            /\ DOMAIN configs' = ConfiguredHosts(conf)
            /\ \A h \in DOMAIN configs' :
                  /\ configs'[h].host = h
                  /\ \E i \in 1..Len(conf.bridges) : conf.bridges[i] = configs'[h]
            /\ \A i \in 1..Len(flows') :
                  /\ flows'[i] \in ConfiguredHosts(conf)
                  /\ flows'[i] \notin configured_hosts
            /\ ConfiguredHosts(conf) = {} =>
                  (configs' = EmptyMap /\ flows' = << >>)]_vars

\* C17 case: async_setup has run with blocks for a host that has an entry and
\* for a host that has none; both are stored and only the second has a flow.
C17_Witness ==
    /\ lastCall = Returned("async_setup", TRUE, FALSE)
    /\ \E h1, h2 \in DOMAIN configs :
        /\ h1 \in configured_hosts
        /\ FlowsFor(h1) = 0
        /\ h2 \notin configured_hosts
        /\ FlowsFor(h2) >= 1

\* -------------------------------------------------- the service and the bridges

\* C18: whenever hass.data[DOMAIN] holds a bridge, the hue_activate_scene
\* service is registered.
C18_ServiceWhileRegistered == DOMAIN registry # {} => service

\* C19: async_unload_entry pops the bridge and removes the service before
\* bridge.async_reset() runs: while the teardown of an entry runs, its host
\* has no bridge and the service is not registered. The call returns what
\* the teardown returned, True or False, and its return changes neither
\* hass.data[DOMAIN] nor the service: a failed teardown restores nothing.
C19_UnloadReturnsTeardown ==
    /\ [](\A e \in resetting :
            EntryHost(e) \notin DOMAIN registry /\ ~service)
    /\ [][\A e \in Entries :
            /\ (e \notin resetting /\ e \in resetting') =>
                  /\ EntryHost(e) \in DOMAIN registry
                  /\ EntryHost(e) \notin DOMAIN registry'
                  /\ ~service'
                  /\ lastCall' = lastCall
            /\ \A ok \in BOOLEAN :
                  async_unload_entry_return(e, ok) =>
                      /\ lastCall' = Returned("async_unload_entry", ok, FALSE)
                      /\ registry' = registry
                      /\ service' = service]_vars

\* C19 case: the teardown of an entry failed and async_unload_entry returned
\* False; the entry's host has no bridge and the service is gone.
C19_Witness ==
    /\ lastCall = Returned("async_unload_entry", FALSE, FALSE)
    /\ ~service
    /\ \E e \in Entries :
        /\ uniqueId[e] # None
        /\ e \notin resetting
        /\ EntryHost(e) \notin DOMAIN registry
====
